---- MODULE Spec2Model ----
(***************************************************************************)
(* The `mongo` callback of rusty-blockparser (src/callbacks/mongo.rs):     *)
(* per block, one block document is inserted, every transaction is turned  *)
(* into a document whose inputs are annotated with the value and address   *)
(* of the output they spend (per-block map first, transactions collection  *)
(* second), and the documents are written with one insert_many.            *)
(*                                                                         *)
(* Documents carry the fields a decision or a claim depends on; fields     *)
(* that are copied verbatim from the parsed block (version, lockTime,      *)
(* scriptSig, sequenceNumber, scriptPubKey, size, timestamp, ...) are left *)
(* out of the records.                                                     *)
(***************************************************************************)
EXTENDS Integers, Sequences, FiniteSets, TLC

-----------------------------------------------------------------------------
(* Bounds of the explored runs *)

\* on_block calls per run
MaxBlocks == 2
\* transactions handed to on_block over a whole run
MaxRunTxs == 3

-----------------------------------------------------------------------------
(* Hashes and their text form *)

\* [u8; 32] hashes, shortened to two bytes
ZeroHash == <<0, 0>>
H1 == <<1, 0>>
H2 == <<0, 171>>
TxHashes == {H1, H2}
BlockHashes == {<<7, 0>>}

HexDigit(d) ==
    CASE d = 0 -> "0" [] d = 1 -> "1" [] d = 2 -> "2" [] d = 3 -> "3"
      [] d = 4 -> "4" [] d = 5 -> "5" [] d = 6 -> "6" [] d = 7 -> "7"
      [] d = 8 -> "8" [] d = 9 -> "9" [] d = 10 -> "a" [] d = 11 -> "b"
      [] d = 12 -> "c" [] d = 13 -> "d" [] d = 14 -> "e" [] d = 15 -> "f"

HexByte(b) == HexDigit(b \div 16) \o HexDigit(b % 16)

RECURSIVE arr_to_hex_swapped(_)
\* utils::arr_to_hex_swapped: the bytes in reverse order, two hex digits each
arr_to_hex_swapped(arr) ==
    IF arr = <<>> THEN ""
    ELSE arr_to_hex_swapped(Tail(arr)) \o HexByte(Head(arr))

\* the literal of lines 176 and 179: as many "00" as a hash has bytes
SentinelText == "0000"

-----------------------------------------------------------------------------
(* Amounts: u64 in the block, i64 in the documents and in the map *)

\* a 64-bit word as its top bit and its low 63 bits; as u64 it is
\* top * 2^63 + low, as i64 it is low - top * 2^63
Word(top, low) == [top |-> top, low |-> low]

\* `x as i64` on a u64 (lines 235 and 249): the same 64 bits, read as signed
AsI64(u) == Word(u.top, u.low)

\* the i64 literal 0 of line 174
ZeroValue == Word(0, 0)

\* the number an i64 word and a u64 word stand for are the same number
SameNumber(i, u) == i.top = 0 /\ u.top = 0 /\ i.low = u.low

-----------------------------------------------------------------------------
(* The parsed chain handed to the callback *)

NoAddress == [some |-> FALSE, text |-> ""]
SomeAddress(a) == [some |-> TRUE, text |-> a]

\* EvaluatedTxOut: out.value and script.address
OutA == [value |-> Word(0, 500), address |-> SomeAddress("addrA")]
OutB == [value |-> Word(1, 10), address |-> NoAddress]
OutPool == {OutA, OutB}

\* output positions an input may name
Indexes == {0, 1}

\* TxInput.outpoint
OutPoint(h, i) == [txid |-> h, index |-> i]
CoinbaseRef == OutPoint(ZeroHash, 0)
Refs == {CoinbaseRef} \cup {OutPoint(h, i) : h \in TxHashes, i \in Indexes}

\* TxInput
InputPool == {[outpoint |-> r] : r \in Refs}

InputLists == [1..1 -> InputPool]
\* one or two outputs; two outputs differ, so that a position is told by
\* what it holds
OutputLists ==
    [1..1 -> OutPool] \cup {outs \in [1..2 -> OutPool] : outs[1] # outs[2]}

\* EvaluatedTx: a transaction's hash fixes its content
TxBodies == [inputs : InputLists, outputs : OutputLists]

StartHeights == {0, 1}

VARIABLES
    txOf,              \* the chain: transaction hash -> EvaluatedTx
    phase,             \* "new", "started", "complete", "failed", "panicked"
    start_height,      \* Mongo.start_height
    end_height,        \* Mongo.end_height
    tx_count,          \* Mongo.tx_count
    block_collection,  \* the documents of collection "blocks"
    tx_collection,     \* the documents of collection "transactions"
    cur_height,        \* the host's height of the next block
    pc,                \* position inside on_block: "idle", "loop"
    block,             \* on_block's block argument
    transactions,      \* on_block's local Vec<Document>
    tx_map,            \* on_block's local HashMap
    k,                 \* position of the loop of line 82 (1-based)
    n,                 \* position of the loop of line 137 (1-based)
    inputs,            \* Hashed<EvaluatedTx>::as_doc's local inputs
    ops,               \* store calls made by the current on_block call
    calls,             \* history: transaction count and result of each on_block
    summary            \* what on_complete printed

vars == <<txOf, phase, start_height, end_height, tx_count, block_collection,
          tx_collection, cur_height, pc, block, transactions, tx_map, k, n,
          inputs, ops, calls, summary>>

mongo == <<start_height, end_height, tx_count>>
store == <<block_collection, tx_collection>>
locals == <<block, transactions, tx_map, k, n, inputs>>

-----------------------------------------------------------------------------
(* Documents *)

\* the empty HashMap of line 80
EmptyMap == [h \in {} |-> 0]

\* MapPut on a map made anew: what was in the map is gone
MapPutFresh(m, key, val) == [x \in {key} |-> val]

\* HashMap::insert / extend: insert or overwrite one key
MapPut(m, key, val) ==
    [x \in DOMAIN m \cup {key} |-> IF x = key THEN val ELSE m[x]]

\* one per block instead of one per transaction
TxCountOne(b) == 1

\* block.tx_count.value: the block's transaction count
TxCountValue(b) == Len(b.txs)

\* Block::as_doc
BlockAsDoc(b, block_height) ==
    [hash |-> arr_to_hex_swapped(b.hash),
     blockHeight |-> block_height,
     txCount |-> TxCountValue(b)]

\* EvaluatedTxOut::as_doc
TxOutAsDoc(output, txid, index) ==
    [txHash |-> txid,
     indexOut |-> index,
     value |-> AsI64(output.value),
     address |-> IF output.address.some THEN output.address.text ELSE ""]

\* TxOutAsMap with the default address of an input for a missing address
TxOutAsMapSentinel(output, index) ==
    MapPut(EmptyMap, index,
           <<AsI64(output.value),
             IF output.address.some THEN output.address.text ELSE SentinelText>>)

\* EvaluatedTxOut::as_map: the one-entry map index -> (value, address)
TxOutAsMap(output, index) ==
    MapPut(EmptyMap, index,
           <<AsI64(output.value),
             IF output.address.some THEN output.address.text ELSE "">>)


\* OutputMap with each output's map assigned instead of merged: only the
\* last output is left
OutputMapLastOnly(outputs, upto) ==
    IF upto = 0 THEN EmptyMap ELSE TxOutAsMap(outputs[upto], upto - 1)

\* Hashed<EvaluatedTx>::as_map_tuple: (hash text, index -> (value, address))
RECURSIVE OutputMap(_, _)
OutputMap(outputs, upto) ==
    IF upto = 0 THEN EmptyMap
    ELSE LET rest == OutputMap(outputs, upto - 1)
             one == TxOutAsMap(outputs[upto], upto - 1)
         IN  [x \in DOMAIN rest \cup DOMAIN one |->
                 IF x \in DOMAIN one THEN one[x] ELSE rest[x]]

AsMapTuple(tx) ==
    <<arr_to_hex_swapped(tx.hash), OutputMap(tx.value.outputs, Len(tx.value.outputs))>>

\* OutputDocs with the outputs walked from the last to the first
OutputDocsReversed(tx) ==
    [i \in 1..Len(tx.value.outputs) |->
        TxOutAsDoc(tx.value.outputs[Len(tx.value.outputs) + 1 - i],
                   arr_to_hex_swapped(tx.hash), i - 1)]

\* the outputs loop of Hashed<EvaluatedTx>::as_doc (lines 134-136)
OutputDocs(tx) ==
    [i \in 1..Len(tx.value.outputs) |->
        TxOutAsDoc(tx.value.outputs[i], arr_to_hex_swapped(tx.hash), i - 1)]

-----------------------------------------------------------------------------
(* TxInput::as_doc *)

\* `*index_prev_out as i32` (line 181): value-preserving below 2^31, and
\* every index of Indexes is
IndexKey(index) == index

\* line 179: the previous output is looked for at all
IsSpend(input) == arr_to_hex_swapped(input.outpoint.txid) # SentinelText

\* line 180: tx_map.get(hash_prev_out) is Some
MapHasTx(map, input) == arr_to_hex_swapped(input.outpoint.txid) \in DOMAIN map

\* line 181: output_map.get(index) is Some
MapHasOutput(map, input) ==
    /\ MapHasTx(map, input)
    /\ IndexKey(input.outpoint.index)
           \in DOMAIN map[arr_to_hex_swapped(input.outpoint.txid)]

\* QueriesStore with the collection asked whenever the map has no pair
QueriesStoreOnMiss(map, input) == IsSpend(input) /\ ~MapHasOutput(map, input)

\* the else-if of line 184 is reached: find_one is called
QueriesStore(map, input) ==
    IsSpend(input) /\ MapHasTx(map, input) /\ ~MapHasOutput(map, input)

\* what find_one({"txHash": hash}) can return: an error, no document, or a
\* document of the collection with that txHash
Matches(coll, hashText) == {i \in 1..Len(coll) : coll[i].txHash = hashText}

FindOne(coll, hashText) ==
    {[kind |-> "err", doc |-> <<>>]}
      \cup (IF Matches(coll, hashText) = {}
            THEN {[kind |-> "none", doc |-> <<>>]}
            ELSE {[kind |-> "some", doc |-> coll[i]] : i \in Matches(coll, hashText)})

\* Outcomes with the collection asked for every spend, whatever the map holds
OutcomesStoreFirst(coll, map, input) ==
    IF IsSpend(input)
    THEN FindOne(coll, arr_to_hex_swapped(input.outpoint.txid))
    ELSE {[kind |-> "skip", doc |-> <<>>]}

\* the outcome of the store call of one input; "skip" when none is made
Outcomes(coll, map, input) ==
    IF QueriesStore(map, input)
    THEN FindOne(coll, arr_to_hex_swapped(input.outpoint.txid))
    ELSE {[kind |-> "skip", doc |-> <<>>]}

\* the unwrap of line 186 on an error, or the slice index of line 189 past
\* the end of txOutputs
Panics(input, found) ==
    \/ found.kind = "err"
    \/ /\ found.kind = "some"
       /\ input.outpoint.index >= Len(found.doc.txOutputs)

\* Resolve with the map always read at output 0
ResolveFirstOutput(map, input, found) ==
    IF ~IsSpend(input) THEN <<ZeroValue, SentinelText>>
    ELSE IF ~MapHasTx(map, input) THEN <<ZeroValue, SentinelText>>
    ELSE IF MapHasOutput(map, input)
         THEN map[arr_to_hex_swapped(input.outpoint.txid)][0]
    ELSE IF found.kind = "some"
         THEN <<found.doc.txOutputs[input.outpoint.index + 1].value,
                found.doc.txOutputs[input.outpoint.index + 1].address>>
    ELSE <<ZeroValue, SentinelText>>

\* Resolve with the empty string as the address of a reward input
ResolveEmptyReward(map, input, found) ==
    IF ~IsSpend(input) THEN <<ZeroValue, "">>
    ELSE IF ~MapHasTx(map, input) THEN <<ZeroValue, SentinelText>>
    ELSE IF MapHasOutput(map, input)
         THEN map[arr_to_hex_swapped(input.outpoint.txid)][IndexKey(input.outpoint.index)]
    ELSE IF found.kind = "some"
         THEN <<found.doc.txOutputs[input.outpoint.index + 1].value,
                found.doc.txOutputs[input.outpoint.index + 1].address>>
    ELSE <<ZeroValue, SentinelText>>

\* lines 174-205: the (value, address) pair the input is annotated with
Resolve(map, input, found) ==
    IF ~IsSpend(input) THEN <<ZeroValue, SentinelText>>
    ELSE IF ~MapHasTx(map, input) THEN <<ZeroValue, SentinelText>>
    ELSE IF MapHasOutput(map, input)
         THEN map[arr_to_hex_swapped(input.outpoint.txid)][IndexKey(input.outpoint.index)]
    ELSE IF found.kind = "some"
         THEN <<found.doc.txOutputs[input.outpoint.index + 1].value,
                found.doc.txOutputs[input.outpoint.index + 1].address>>
    ELSE <<ZeroValue, SentinelText>>

\* lines 207-216
TxInputAsDoc(input, txid, index, map, found) ==
    [txHash |-> txid,
     hashPrevOut |-> arr_to_hex_swapped(input.outpoint.txid),
     indexPrevOut |-> input.outpoint.index,
     indexIn |-> index,
     value |-> Resolve(map, input, found)[1],
     address |-> Resolve(map, input, found)[2]]

\* lines 140-149
TxAsDoc(tx, block_hash, inputDocs) ==
    [txHash |-> arr_to_hex_swapped(tx.hash),
     blockHash |-> block_hash,
     inputCount |-> Len(tx.value.inputs),
     txInputs |-> inputDocs,
     outputCount |-> Len(tx.value.outputs),
     txOutputs |-> OutputDocs(tx)]


-----------------------------------------------------------------------------
(* The run *)

RECURSIVE Handed(_)
\* transactions handed to on_block so far
Handed(cs) == IF cs = <<>> THEN 0 ELSE Head(cs).txs + Handed(Tail(cs))

\* a parsed block: its header hash and its Vec<Hashed<EvaluatedTx>>
Blocks(maxLen) ==
    {[hash |-> bh,
      txs |-> [i \in 1..Len(hs) |-> [hash |-> hs[i], value |-> txOf[hs[i]]]]] :
        bh \in BlockHashes,
        hs \in UNION {[1..len -> TxHashes] : len \in 1..maxLen}}

NoBlock == [hash |-> ZeroHash, txs |-> <<>>]

\* Mongo::new: the counters are 0, nothing is in flight
Init ==
    /\ txOf \in [TxHashes -> TxBodies]
    /\ phase = "new"
    /\ start_height = 0
    /\ end_height = 0
    /\ tx_count = 0
    /\ block_collection = <<>>
    /\ tx_collection = <<>>
    /\ cur_height = 0
    /\ pc = "idle"
    /\ block = NoBlock
    /\ transactions = <<>>
    /\ tx_map = EmptyMap
    /\ k = 1
    /\ n = 1
    /\ inputs = <<>>
    /\ ops = <<>>
    /\ calls = <<>>
    /\ summary = <<>>

\* Mongo::on_start: the ping of line 69 succeeds or fails
OnStart ==
    /\ phase = "new"
    /\ \E h \in StartHeights, ok \in BOOLEAN :
        /\ start_height' = h
        /\ cur_height' = h
        /\ phase' = IF ok THEN "started" ELSE "failed"
    /\ UNCHANGED <<txOf, end_height, tx_count, store, pc, locals, ops, calls, summary>>

\* the map of the previous call kept
TxMapKept == tx_map

\* line 80: on_block starts from HashMap::new()
TxMapAtEntry == EmptyMap

\* Mongo::on_block, lines 75-80: the insert of the block document; the
\* locals of the previous call are gone
OnBlockInsertOne ==
    /\ phase = "started"
    /\ pc = "idle"
    /\ Len(calls) < MaxBlocks
    /\ Handed(calls) < MaxRunTxs
    /\ \E b \in Blocks(MaxRunTxs - Handed(calls)), ok \in BOOLEAN :
        /\ block' = b
        /\ ops' = <<[op |-> "insert_one", ok |-> ok, tx |-> 0, input |-> 0]>>
        /\ IF ok
           THEN /\ block_collection' = Append(block_collection, BlockAsDoc(b, cur_height))
                /\ pc' = "loop"
                /\ UNCHANGED <<phase, calls>>
           ELSE /\ phase' = "failed"
                /\ calls' = Append(calls, [txs |-> Len(b.txs), result |-> "err"])
                /\ UNCHANGED <<block_collection, pc>>
    /\ transactions' = <<>>
    /\ tx_map' = TxMapAtEntry
    /\ k' = 1
    /\ n' = 1
    /\ inputs' = <<>>
    /\ UNCHANGED <<txOf, mongo, tx_collection, cur_height, summary>>

\* one turn of the loop of line 137: TxInput::as_doc of input n of the
\* transaction at position k
ResolveInput ==
    /\ phase = "started"
    /\ pc = "loop"
    /\ k <= Len(block.txs)
    /\ n <= Len(block.txs[k].value.inputs)
    /\ LET tx == block.txs[k]
           input == tx.value.inputs[n]
       IN  \E found \in Outcomes(tx_collection, tx_map, input) :
            /\ ops' = IF found.kind = "skip" THEN ops
                      ELSE Append(ops, [op |-> "find_one", ok |-> found.kind # "err",
                                        tx |-> k, input |-> n])
            /\ IF Panics(input, found)
               THEN /\ phase' = "panicked"
                    /\ calls' = Append(calls, [txs |-> Len(block.txs), result |-> "panic"])
                    /\ UNCHANGED <<inputs, n>>
               ELSE /\ inputs' = Append(inputs,
                          TxInputAsDoc(input, arr_to_hex_swapped(tx.hash), n - 1,
                                       tx_map, found))
                    /\ n' = n + 1
                    /\ UNCHANGED <<phase, calls>>
    /\ UNCHANGED <<txOf, mongo, store, cur_height, pc, block, transactions, tx_map,
                   k, summary>>

\* the document written to the collection as soon as it is made
CollectionWithPush(coll, doc) == Append(coll, doc)

\* line 83 pushes the document to the local Vec only: the collection is as
\* it was
CollectionAfterPush(coll, doc) == coll

\* the rest of one turn of the loop of line 82: the document is assembled
\* and pushed, then the transaction's outputs go into tx_map
PushAndInsert ==
    /\ phase = "started"
    /\ pc = "loop"
    /\ k <= Len(block.txs)
    /\ n > Len(block.txs[k].value.inputs)
    /\ LET tx == block.txs[k]
           doc == TxAsDoc(tx, arr_to_hex_swapped(block.hash), inputs)
       IN  /\ transactions' = Append(transactions, doc)
           /\ tx_collection' = CollectionAfterPush(tx_collection, doc)
           /\ tx_map' = MapPut(tx_map, AsMapTuple(tx)[1], AsMapTuple(tx)[2])
    /\ k' = k + 1
    /\ n' = 1
    /\ inputs' = <<>>
    /\ UNCHANGED <<txOf, phase, mongo, block_collection, cur_height, pc, block, ops,
                   calls, summary>>

\* the loop of line 82 left one turn early
BulkReadyEarly == k >= Len(block.txs) /\ n = 1

\* the loop of line 82 is over
BulkReady == k > Len(block.txs)

\* lines 87-89, insert_many returned Ok: the documents are in the collection
\* and the counter grows by block.tx_count
BulkOk ==
    /\ ops' = Append(ops, [op |-> "insert_many", ok |-> TRUE, tx |-> 0, input |-> 0])
    /\ tx_collection' = tx_collection \o transactions
    /\ tx_count' = tx_count + TxCountValue(block)
    /\ calls' = Append(calls, [txs |-> Len(block.txs), result |-> "ok"])
    /\ cur_height' = cur_height + 1
    /\ UNCHANGED phase

\* BulkErr with the counter advanced before the insert
BulkErrCounted ==
    /\ ops' = Append(ops, [op |-> "insert_many", ok |-> FALSE, tx |-> 0, input |-> 0])
    /\ \E written \in 0..(Len(transactions) - 1) :
          tx_collection' = tx_collection \o SubSeq(transactions, 1, written)
    /\ phase' = "failed"
    /\ calls' = Append(calls, [txs |-> Len(block.txs), result |-> "err"])
    /\ tx_count' = tx_count + TxCountValue(block)
    /\ UNCHANGED cur_height

\* line 87, insert_many returned Err: `?` returns it; a prefix of the
\* documents may have been written
BulkErr ==
    /\ ops' = Append(ops, [op |-> "insert_many", ok |-> FALSE, tx |-> 0, input |-> 0])
    /\ \E written \in 0..(Len(transactions) - 1) :
          tx_collection' = tx_collection \o SubSeq(transactions, 1, written)
    /\ phase' = "failed"
    /\ calls' = Append(calls, [txs |-> Len(block.txs), result |-> "err"])
    /\ UNCHANGED <<tx_count, cur_height>>

\* lines 87-89: the bulk insert and the return of on_block. The locals keep
\* their last values until the next call replaces them
InsertMany ==
    /\ phase = "started"
    /\ pc = "loop"
    /\ BulkReady
    /\ (BulkOk \/ BulkErr)
    /\ pc' = "idle"
    /\ UNCHANGED <<txOf, start_height, end_height, block_collection, locals, summary>>

\* the host's completion notification carries the final height: the height
\* of the last block handed over (0 when the chain starts at 0 and is empty)
FinalHeight == IF cur_height = 0 THEN 0 ELSE cur_height - 1

\* Mongo::on_complete: the height is kept as end_height, and end_height and
\* tx_count are printed as "Dumped all {} blocks" and "transactions"
OnComplete ==
    /\ phase = "started"
    /\ pc = "idle"
    /\ LET block_height == FinalHeight
       IN  /\ end_height' = block_height
           /\ summary' = <<[blocks |-> block_height, transactions |-> tx_count]>>
    /\ phase' = "complete"
    /\ UNCHANGED <<txOf, start_height, tx_count, store, cur_height, pc, locals, ops,
                   calls>>

Next ==
    \/ OnStart
    \/ OnBlockInsertOne
    \/ ResolveInput
    \/ PushAndInsert
    \/ InsertMany
    \/ OnComplete

Spec == Init /\ [][Next]_vars


-----------------------------------------------------------------------------
(* Vocabulary of the properties *)

\* the inputs annotated so far by the current on_block call: position of the
\* transaction in the block, position of the input, and the document
Resolved ==
    UNION {{[tx |-> kk, input |-> nn, doc |-> transactions[kk].txInputs[nn]] :
               nn \in 1..Len(transactions[kk].txInputs)} :
           kk \in 1..Len(transactions)}
      \cup {[tx |-> k, input |-> nn, doc |-> inputs[nn]] : nn \in 1..Len(inputs)}

\* the raw input an annotated input was made from
RawInput(r) == block.txs[r.tx].value.inputs[r.input]

\* find_one calls made for one input
Queries(r) ==
    Cardinality({i \in 1..Len(ops) :
        ops[i].op = "find_one" /\ ops[i].tx = r.tx /\ ops[i].input = r.input})

\* positions before r's transaction that hold the transaction r refers to,
\* with the output r refers to
EarlierSources(r) ==
    {j \in 1..(r.tx - 1) :
        /\ block.txs[j].hash = RawInput(r).outpoint.txid
        /\ RawInput(r).outpoint.index < Len(block.txs[j].value.outputs)}

\* positions before r's transaction that hold the transaction r refers to
EarlierTxs(r) ==
    {j \in 1..(r.tx - 1) : block.txs[j].hash = RawInput(r).outpoint.txid}

\* documents of the collection that hold the output r refers to
StoredSources(r) ==
    {i \in 1..Len(tx_collection) :
        /\ tx_collection[i].txHash = arr_to_hex_swapped(RawInput(r).outpoint.txid)
        /\ RawInput(r).outpoint.index < Len(tx_collection[i].txOutputs)}

\* on_block is between its first and its last store call
InCall == pc = "loop"

-----------------------------------------------------------------------------
(* C1 *)

\* C1: an input that refers to output i of a transaction earlier in the same
\* block carries the value and address recorded for that output, and no
\* find_one was made for it.
C1_SameBlockSpend ==
    \A r \in Resolved : \A j \in EarlierSources(r) :
        LET out == transactions[j].txOutputs[RawInput(r).outpoint.index + 1]
        IN  /\ r.doc.value = out.value
            /\ r.doc.address = out.address
            /\ Queries(r) = 0

\* the scenario of the specification: B spends A's output (500, "addrA")
C1_Witness ==
    \E r \in Resolved :
        /\ EarlierSources(r) # {}
        /\ r.doc.value = Word(0, 500)
        /\ r.doc.address = "addrA"
        /\ RawInput(r).outpoint.index = 1
        /\ RawInput(r).outpoint.txid # block.txs[r.tx].hash


-----------------------------------------------------------------------------
(* C2 *)

\* C2: an input that refers to an output of a transaction written to the
\* collection by an earlier on_block call (and not also earlier in its own
\* block) is resolved by exactly one find_one and carries the value and
\* address stored for that output.
C2_CrossBlockSpend ==
    InCall =>
        \A r \in Resolved :
            (EarlierTxs(r) = {} /\ StoredSources(r) # {}) =>
                /\ Queries(r) = 1
                /\ \E i \in StoredSources(r) :
                    LET out == tx_collection[i].txOutputs[RawInput(r).outpoint.index + 1]
                    IN  r.doc.value = out.value /\ r.doc.address = out.address

-----------------------------------------------------------------------------
(* C3 *)

\* C3: an input whose previous-output hash is all zero carries value 0 and
\* the all-zero hash text as address, and no find_one was made for it.
C3_RewardInput ==
    \A r \in Resolved :
        RawInput(r).outpoint.txid = ZeroHash =>
            /\ r.doc.value = ZeroValue
            /\ r.doc.address = SentinelText
            /\ Queries(r) = 0

\* a reward input annotated while the map and the collection both hold
\* transactions
C3_Witness ==
    \E r \in Resolved :
        /\ RawInput(r).outpoint.txid = ZeroHash
        /\ DOMAIN tx_map # {}
        /\ tx_collection # <<>>
        /\ InCall

-----------------------------------------------------------------------------
(* C4 *)

\* C4: an input (not a reward input) whose referenced output is neither in
\* the per-block map nor in the collection carries value 0 and the empty
\* address.
C4_UnresolvedInput ==
    InCall =>
        \A r \in Resolved :
            (/\ RawInput(r).outpoint.txid # ZeroHash
             /\ EarlierSources(r) = {}
             /\ StoredSources(r) = {}) =>
                /\ r.doc.value = ZeroValue
                /\ r.doc.address = ""


-----------------------------------------------------------------------------
(* C5 *)

\* positions of the call's log that hold a given store operation
OpsOf(name) == {i \in 1..Len(ops) : ops[i].op = name}

\* the block document of the current call is in the collection
BlockInserted == ops # <<>> /\ ops[1].op = "insert_one" /\ ops[1].ok

-----------------------------------------------------------------------------
(* C6 *)

\* on_block has returned Ok and no other call has begun
ReturnedOk ==
    /\ pc = "idle"
    /\ ops # <<>>
    /\ ops[Len(ops)].op = "insert_many"
    /\ ops[Len(ops)].ok

\* the documents the last call appended to the collection
LastWritten ==
    SubSeq(tx_collection, Len(tx_collection) - Len(block.txs) + 1, Len(tx_collection))

\* C6: a call that returned Ok made one insert_one and one insert_many, and
\* wrote one document per transaction of the block, in the block's order,
\* each with one input document per input and one output document per
\* output, in position order.
C6_OneRecordPerTransaction ==
    ReturnedOk =>
        /\ Cardinality(OpsOf("insert_one")) = 1
        /\ Cardinality(OpsOf("insert_many")) = 1
        /\ Len(tx_collection) >= Len(block.txs)
        /\ \A i \in 1..Len(block.txs) :
            LET tx == block.txs[i]
                doc == LastWritten[i]
            IN  /\ doc.txHash = arr_to_hex_swapped(tx.hash)
                /\ Len(doc.txInputs) = Len(tx.value.inputs)
                /\ Len(doc.txOutputs) = Len(tx.value.outputs)
                /\ \A m \in 1..Len(tx.value.inputs) :
                      /\ doc.txInputs[m].indexIn = m - 1
                      /\ doc.txInputs[m].hashPrevOut =
                             arr_to_hex_swapped(tx.value.inputs[m].outpoint.txid)
                      /\ doc.txInputs[m].indexPrevOut = tx.value.inputs[m].outpoint.index
                /\ \A m \in 1..Len(tx.value.outputs) :
                      /\ doc.txOutputs[m].indexOut = m - 1
                      /\ doc.txOutputs[m].value = AsI64(tx.value.outputs[m].value)
                      /\ doc.txOutputs[m].address =
                             (IF tx.value.outputs[m].address.some
                              THEN tx.value.outputs[m].address.text ELSE "")

\* a second block of two different transactions, one of them with two
\* outputs, has been written
C6_Witness ==
    /\ ReturnedOk
    /\ Len(block.txs) = 2
    /\ block.txs[1].hash # block.txs[2].hash
    /\ Len(block.txs[2].value.outputs) = 2
    /\ Len(tx_collection) > Len(block.txs)

-----------------------------------------------------------------------------
(* C7 *)

\* s is a prefix of t
IsPrefix(s, t) == Len(s) <= Len(t) /\ SubSeq(t, 1, Len(s)) = s

\* C7: a failed insert_one ends on_block with nothing written, no find_one
\* made and the counter untouched; a failed insert_many ends it with the
\* block document still in the collection, nothing removed and the counter
\* untouched; nothing is tried again after either.
C7_WriteFailureAborts ==
    [][/\ (phase = "started" /\ phase' = "failed" /\ pc = "idle") =>
            /\ tx_collection' = tx_collection
            /\ tx_count' = tx_count
            /\ Len(ops') = 1
       /\ (phase = "started" /\ phase' = "failed" /\ pc = "loop") =>
            /\ block_collection' = block_collection
            /\ block_collection[Len(block_collection)].hash = arr_to_hex_swapped(block.hash)
            /\ block_collection[Len(block_collection)].blockHeight = cur_height
            /\ IsPrefix(tx_collection, tx_collection')
            /\ tx_count' = tx_count
            /\ Cardinality({i \in 1..Len(ops') : ops'[i].op = "insert_many"}) = 1
       /\ phase = "failed" => UNCHANGED vars
      ]_vars

\* the bulk insert of a second block failed after the first block was written
C7_Witness ==
    /\ phase = "failed"
    /\ ops # <<>>
    /\ ops[Len(ops)].op = "insert_many"
    /\ Len(block_collection) = 2
    /\ tx_count > 0

-----------------------------------------------------------------------------
(* C8 *)

RECURSIVE OkTxs(_)
\* transactions of the calls that returned Ok
OkTxs(cs) ==
    IF cs = <<>> THEN 0
    ELSE (IF Head(cs).result = "ok" THEN Head(cs).txs ELSE 0) + OkTxs(Tail(cs))

\* C8: the counter is the sum of the transaction counts of the on_block calls
\* that returned Ok, and on_complete reports that sum.
C8_CounterIsSumOfSuccesses ==
    /\ tx_count = OkTxs(calls)
    /\ summary # <<>> => summary[1].transactions = OkTxs(calls)

\* on_complete after a block of one and a block of two transactions
C8_Witness ==
    /\ phase = "complete"
    /\ Len(calls) = 2
    /\ calls[1].txs # calls[2].txs
    /\ summary[1].transactions = 3

-----------------------------------------------------------------------------
(* C9 *)

\* a step of TxInput::as_doc
ResolveStep ==
    /\ phase = "started"
    /\ pc = "loop"
    /\ BulkReady = FALSE
    /\ n <= Len(block.txs[k].value.inputs)
    /\ (Len(inputs') = Len(inputs) + 1 \/ phase' = "panicked")

\* the output the input being resolved refers to is in the map
MapHit ==
    LET ref == block.txs[k].value.inputs[n].outpoint
    IN  /\ arr_to_hex_swapped(ref.txid) \in DOMAIN tx_map
        /\ ref.index \in DOMAIN tx_map[arr_to_hex_swapped(ref.txid)]

\* C9: resolving an input writes nothing to the store and makes at most one
\* find_one; when the referenced output is in the map it makes no store call.
C9_ResolverReadsAtMostOnce ==
    [][ResolveStep =>
          /\ store' = store
          /\ \/ ops' = ops
             \/ /\ Len(ops') = Len(ops) + 1
                /\ SubSeq(ops', 1, Len(ops)) = ops
                /\ ops'[Len(ops')].op = "find_one"
          /\ MapHit => ops' = ops
      ]_vars

\* one call resolved an input from the map and another through find_one
C9_Witness ==
    /\ \E r \in Resolved : EarlierSources(r) # {} /\ Queries(r) = 0
    /\ \E r \in Resolved : Queries(r) = 1

-----------------------------------------------------------------------------
(* C10 *)

\* C10: the map is empty when on_block starts and holds only transactions of
\* the block being ingested; an input that refers to a transaction that is
\* not earlier in its own block gets a value only through find_one.
C10_MapIsPerBlock ==
    /\ (InCall /\ k = 1) => tx_map = EmptyMap
    /\ InCall =>
          DOMAIN tx_map = {arr_to_hex_swapped(block.txs[j].hash) : j \in 1..(k - 1)}
    /\ \A r \in Resolved :
          (EarlierTxs(r) = {} /\ Queries(r) = 0) =>
              r.doc.value = ZeroValue /\ r.doc.address = SentinelText

\* a later block spends an output of a transaction written by an earlier call
C10_Witness ==
    /\ InCall
    /\ Len(calls) >= 1
    /\ \E r \in Resolved :
          /\ EarlierTxs(r) = {}
          /\ StoredSources(r) # {}
          /\ RawInput(r).outpoint.txid # block.txs[r.tx].hash

-----------------------------------------------------------------------------
(* C11 *)

\* the transaction documents made so far: written, or waiting for the bulk
\* insert
TxDocs ==
    {tx_collection[i] : i \in 1..Len(tx_collection)}
      \cup {transactions[i] : i \in 1..Len(transactions)}

\* the parsed transaction a document was made from
RawTx(doc) == txOf[CHOOSE h \in TxHashes : arr_to_hex_swapped(h) = doc.txHash]

\* the last store call of the current on_block call
LastOp == ops[Len(ops)]

\* C11: the document of an output without a recognized address has the empty
\* string as address and the output's amount as value, and deriving it never
\* ends on_block: on_block ends early only on a store call.
C11_UnrecognizedAddress ==
    /\ \A doc \in TxDocs : \A m \in 1..Len(doc.txOutputs) :
          ~RawTx(doc).outputs[m].address.some =>
              /\ doc.txOutputs[m].address = ""
              /\ SameNumber(doc.txOutputs[m].value, RawTx(doc).outputs[m].value)
    /\ phase = "panicked" => LastOp.op = "find_one"
    /\ (phase = "failed" /\ ops # <<>>) => ~LastOp.ok

-----------------------------------------------------------------------------
(* C12 *)

RECURSIVE OkCalls(_)
\* the on_block calls that returned Ok
OkCalls(cs) ==
    IF cs = <<>> THEN 0
    ELSE (IF Head(cs).result = "ok" THEN 1 ELSE 0) + OkCalls(Tail(cs))

\* C12: the number of blocks on_complete prints is the number of on_block
\* calls that returned Ok since on_start, whatever the starting height.
C12_BlocksProcessedIsCount ==
    summary # <<>> => summary[1].blocks = OkCalls(calls)

-----------------------------------------------------------------------------
(* C13 *)

\* C13: for every transaction of the block processed so far, the map holds
\* under the transaction's hash text exactly the positions of its outputs,
\* each with the (value, address) pair of the output document made for the
\* same hash and position; documents made from the same transaction at
\* different times carry the same output documents.
C13_MapAgreesWithDocs ==
    /\ InCall =>
          \A j \in 1..Len(transactions) :
              LET doc == transactions[j]
              IN  /\ doc.txHash \in DOMAIN tx_map
                  /\ DOMAIN tx_map[doc.txHash] = 0..(Len(doc.txOutputs) - 1)
                  /\ \A m \in 1..Len(doc.txOutputs) :
                        /\ doc.txOutputs[m].txHash = doc.txHash
                        /\ doc.txOutputs[m].indexOut = m - 1
                        /\ tx_map[doc.txHash][m - 1] =
                               <<doc.txOutputs[m].value, doc.txOutputs[m].address>>
    /\ \A d1 \in TxDocs, d2 \in TxDocs :
          d1.txHash = d2.txHash => d1.txOutputs = d2.txOutputs

\* the map holds a transaction of two outputs, one of them without an
\* address, and a document of the same transaction was written by an earlier
\* call
C13_Witness ==
    /\ InCall
    /\ \E j \in 1..Len(transactions) :
          /\ Len(transactions[j].txOutputs) = 2
          /\ \E m \in 1..2 : transactions[j].txOutputs[m].address = ""
          /\ \E i \in 1..Len(tx_collection) :
                tx_collection[i].txHash = transactions[j].txHash

-----------------------------------------------------------------------------
(* C14 *)

-----------------------------------------------------------------------------
(* C15 *)

\* the transaction r refers to is in the map or in the collection, and it
\* has no output at the position r refers to
MissingIndex(r) ==
    /\ RawInput(r).outpoint.txid \in TxHashes
    /\ \/ EarlierTxs(r) # {}
       \/ \E i \in 1..Len(tx_collection) :
             tx_collection[i].txHash = arr_to_hex_swapped(RawInput(r).outpoint.txid)
    /\ RawInput(r).outpoint.index >= Len(txOf[RawInput(r).outpoint.txid].outputs)

\* the part of C15 about on_block going on: a find_one that returned a
\* document is never the last thing on_block did
C15_NoAbort == ~(phase = "panicked" /\ LastOp.op = "find_one" /\ LastOp.ok)

\* C15: an input that names a known transaction but a position past its
\* outputs carries value 0 and the empty address, and on_block is never ended
\* by the lookup of such an input.
C15_MissingIndexIsUnresolved ==
    /\ InCall =>
          \A r \in Resolved :
              MissingIndex(r) => r.doc.value = ZeroValue /\ r.doc.address = ""
    /\ C15_NoAbort

-----------------------------------------------------------------------------
(* C16 *)

\* the (hash text, position) pairs the map holds
Keys(map) == UNION {{<<h, i>> : i \in DOMAIN map[h]} : h \in DOMAIN map}

\* C16: while on_block handles a block, every (hash, position) key of the
\* map is still in the map after each step, with the pair it held; a step
\* adds the keys of at most one hash; this also holds when the block holds
\* the same transaction twice.
C16_NoEntryRemoved ==
    [][pc = "loop" =>
          /\ Keys(tx_map) \subseteq Keys(tx_map')
          /\ \A key \in Keys(tx_map) : tx_map'[key[1]][key[2]] = tx_map[key[1]][key[2]]
          /\ Cardinality(DOMAIN tx_map' \ DOMAIN tx_map) <= 1
      ]_vars

\* the same transaction of two outputs was put into the map twice
C16_Witness ==
    /\ pc = "loop"
    /\ k = 3
    /\ block.txs[1].hash = block.txs[2].hash
    /\ Keys(tx_map) = {<<arr_to_hex_swapped(block.txs[1].hash), 0>>,
                       <<arr_to_hex_swapped(block.txs[1].hash), 1>>}

-----------------------------------------------------------------------------
(* C17 *)

\* the find_one of the current call failed
QueryFailed == ops # <<>> /\ LastOp.op = "find_one" /\ ~LastOp.ok

\* C17: when a find_one fails, on_block ends there and returns the error to
\* its caller: no bulk insert is made and the counter stays as it was.
C17_QueryFailureReturnsErr ==
    QueryFailed =>
        /\ phase = "failed"
        /\ calls # <<>>
        /\ calls[Len(calls)].result = "err"
        /\ OpsOf("insert_many") = {}
        /\ tx_count = OkTxs(SubSeq(calls, 1, Len(calls) - 1))

-----------------------------------------------------------------------------
(* C18 *)

\* the outpoint of the input a logged find_one was made for
QueriedRef(i) == block.txs[ops[i].tx].value.inputs[ops[i].input].outpoint

\* C18: every find_one of a call was made for an input whose transaction is
\* at an earlier position of the block (its hash is in the map) but has no
\* output at the position named (the map has no pair for it); an input, not
\* a reward input, whose transaction is at no earlier position of the block
\* gets no find_one and carries value 0 and the all-zero hash text.
C18_QueryOnlyOnIndexMiss ==
    /\ \A i \in OpsOf("find_one") :
          /\ QueriedRef(i).txid # ZeroHash
          /\ \E j \in 1..(ops[i].tx - 1) : block.txs[j].hash = QueriedRef(i).txid
          /\ \A j \in 1..(ops[i].tx - 1) :
                block.txs[j].hash = QueriedRef(i).txid =>
                    QueriedRef(i).index >= Len(block.txs[j].value.outputs)
    /\ \A r \in Resolved :
          (RawInput(r).outpoint.txid # ZeroHash /\ EarlierTxs(r) = {}) =>
              /\ Queries(r) = 0
              /\ r.doc.value = ZeroValue
              /\ r.doc.address = SentinelText

\* in one block, an input got a find_one and another, naming a transaction
\* that is only in the collection, got none
C18_Witness ==
    /\ InCall
    /\ \E r \in Resolved : Queries(r) = 1
    /\ \E r \in Resolved :
          /\ RawInput(r).outpoint.txid # ZeroHash
          /\ EarlierTxs(r) = {}
          /\ StoredSources(r) # {}
          /\ Queries(r) = 0

-----------------------------------------------------------------------------
(* C19 *)

\* a find_one of the current call returned a document: the read of its
\* txOutputs at a position the transaction does not have ended the call
StoreHit == phase = "panicked" /\ LastOp.op = "find_one" /\ LastOp.ok

\* C19: from the insert of the block document to the bulk insert, the
\* collection holds the documents of the earlier calls that returned Ok and
\* nothing of the block being handled, though documents of the block are
\* waiting in the local Vec; a find_one that returns a document returns one
\* of those.
C19_HitsComeFromEarlierCalls ==
    /\ pc = "loop" =>
          /\ Len(tx_collection) = OkTxs(calls)
          /\ OpsOf("insert_many") = {}
    /\ StoreHit =>
          \E i \in 1..OkTxs(calls) :
              tx_collection[i].txHash = arr_to_hex_swapped(QueriedRef(Len(ops)).txid)

\* a find_one of a second block returned a document while a document of
\* that block was waiting in the local Vec
C19_Witness ==
    /\ StoreHit
    /\ Len(calls) = 2
    /\ transactions # <<>>
    /\ tx_collection # <<>>

-----------------------------------------------------------------------------
(* C20 *)

\* C20: for every amount of the u64 range, the value of the output document,
\* the value put into the map and the value carried by an input that spends
\* the output from the map are the number the amount is.
C20_ValueIsAmount ==
    /\ \A doc \in TxDocs : \A m \in 1..Len(doc.txOutputs) :
          SameNumber(doc.txOutputs[m].value, RawTx(doc).outputs[m].value)
    /\ InCall =>
          \A j \in 1..(k - 1) : \A m \in 1..Len(block.txs[j].value.outputs) :
              SameNumber(tx_map[arr_to_hex_swapped(block.txs[j].hash)][m - 1][1],
                         block.txs[j].value.outputs[m].value)
    /\ \A r \in Resolved : \A j \in EarlierSources(r) :
          SameNumber(r.doc.value,
                     block.txs[j].value.outputs[RawInput(r).outpoint.index + 1].value)

====
